---- MODULE Spec2Model ----
(***************************************************************************)
(* Model of Scraping1975PacHurricanes.py: the heading loop, the record     *)
(* extractor process_hurricane (infobox dates, sibling walk, Olivia        *)
(* override, the five appends) and the final check-and-write step.         *)
(*                                                                         *)
(* Text is kept as TLA+ strings and the string operations of the script    *)
(* (strip, lower, replace, substring test, the three regular expressions)  *)
(* are computed character by character.                                    *)
(***************************************************************************)
EXTENDS Integers, Sequences, FiniteSets, TLC

(***************************************************************************)
(* State                                                                   *)
(***************************************************************************)
VARIABLES
    doc,                       \* soup, after the <sup> elements are removed
    hurricane_names, start_dates, end_dates, deaths, areas_affected,
    log,                       \* the records logging emits at level INFO
    pc,                        \* "main", "walk", "write", "done", "raised"
    h,                         \* position of the heading loop in headings
    hurricane_name, date_start, date_end, hurricane_deaths,
    hurricane_affected_areas,  \* locals of process_hurricane
    sibling,                   \* position in doc of the walk's element, 0 for None
    csv                        \* rows of hurricanes_1975.csv, none until written

(***************************************************************************)
(* Characters                                                              *)
(***************************************************************************)
\* A TLA+ string literal cannot hold U+2013 (en dash); "~" stands for it.
EnDash == "~"

UpperSeq == "ABCDEFGHIJKLMNOPQRSTUVWXYZ"
LowerSeq == "abcdefghijklmnopqrstuvwxyz"
DigitSeq == "0123456789"

Char(s, i) == SubSeq(s, i, i)

UpperChars == {Char(UpperSeq, i) : i \in 1..Len(UpperSeq)}
LowerChars == {Char(LowerSeq, i) : i \in 1..Len(LowerSeq)}
DigitChars == {Char(DigitSeq, i) : i \in 1..Len(DigitSeq)}
\* \w of the re module, on the characters used here
WordChars == UpperChars \cup LowerChars \cup DigitChars \cup {"_"}
\* \s of the re module, and the characters str.strip() removes
SpaceChars == {" ", "\t", "\n", "\r", "\f"}

IsUpper(c) == c \in UpperChars
IsSpace(c) == c \in SpaceChars

(***************************************************************************)
(* str methods                                                             *)
(***************************************************************************)
\* the lower-case letter of each upper-case letter
ToLower == [c \in UpperChars |->
              Char(LowerSeq, CHOOSE i \in 1..Len(UpperSeq) : Char(UpperSeq, i) = c)]

LowerChar(c) == IF IsUpper(c) THEN ToLower[c] ELSE c

\* str.lower()
lower(s) ==
    LET low[i \in 0..Len(s)] ==
            IF i = 0 THEN "" ELSE low[i - 1] \o LowerChar(Char(s, i))
    IN  low[Len(s)]

\* str.strip(): leading and trailing whitespace removed
strip(s) ==
    LET keep == {i \in 1..Len(s) : ~IsSpace(Char(s, i))}
    IN  IF keep = {} THEN ""
        ELSE SubSeq(s, CHOOSE i \in keep : \A j \in keep : i <= j,
                       CHOOSE i \in keep : \A j \in keep : i >= j)

\* sub occurs in s at position i
OccursAt(sub, s, i) == i + Len(sub) - 1 <= Len(s) /\ SubSeq(s, i, i + Len(sub) - 1) = sub

\* the `in` operator on strings: sub in s
contains(s, sub) == \E i \in 1..(Len(s) + 1) : OccursAt(sub, s, i)

\* str.replace(old, new) for a non-empty old: every non-overlapping
\* occurrence, left to right
replace(s, old, new) ==
    LET rest[i \in 1..(Len(s) + 1)] ==
            IF i > Len(s) THEN ""
            ELSE IF OccursAt(old, s, i) THEN new \o rest[i + Len(old)]
                 ELSE Char(s, i) \o rest[i + 1]
    IN  rest[1]

\* sep.join(parts)
join(sep, parts) ==
    LET joined[i \in 0..Len(parts)] ==
            IF i = 0 THEN ""
            ELSE IF i = 1 THEN parts[1]
                 ELSE joined[i - 1] \o sep \o parts[i]
    IN  joined[Len(parts)]

(***************************************************************************)
(* Regular expressions                                                     *)
(*                                                                         *)
(* A pattern is a program for a backtracking matcher, the way the re       *)
(* module runs it: an instruction consumes text, or splits into a          *)
(* preferred and a fallback continuation (a greedy repetition prefers one  *)
(* more round, an alternation its leftmost branch), or saves the position  *)
(* of a group boundary.  The first continuation that reaches "match" wins. *)
(***************************************************************************)
\* Python's None
None == "None"

\* consume one character of a set
CharIn(set) == [op |-> "char", set |-> set, str |-> "", x |-> 0, y |-> 0]
\* consume a literal string
Lit(lit) == [op |-> "lit", set |-> {}, str |-> lit, x |-> 0, y |-> 0]
\* continue at x; if that fails, at y
Split(x, y) == [op |-> "split", set |-> {}, str |-> "", x |-> x, y |-> y]
\* continue at x
Jmp(x) == [op |-> "jmp", set |-> {}, str |-> "", x |-> x, y |-> 0]
\* store the position in slot x
Save(x) == [op |-> "save", set |-> {}, str |-> "", x |-> x, y |-> 0]
Match == [op |-> "match", set |-> {}, str |-> "", x |-> 0, y |-> 0]

\* the slots a program saves into
Slots(prog) == {prog[k].x : k \in {j \in 1..Len(prog) : prog[j].op = "save"}}

\* the result of the preferred continuation, or else that of the fallback
\* (<<>> is a failed match)
OrElse == [first \in Seq(Nat), second \in Seq(Nat) |-> IF first # <<>> THEN first ELSE second]

\* a result with position pos stored in slot n
Saved == [r \in Seq(Nat), n \in Nat, pos \in Nat |->
            IF r # <<>> THEN [r EXCEPT ![1 + n] = pos] ELSE r]

\* The matcher, started at position start: <<>> when the pattern does not match
\* there, else the end position followed by the saved positions.
\* ignorecase is the re.IGNORECASE flag (the literals of prog in lower case).
MatchAt(prog, s, start, ignorecase) ==
    LET run[ip \in 1..Len(prog), pos \in 1..(Len(s) + 1)] ==
            CASE prog[ip].op = "char" ->
                    IF pos <= Len(s) /\ Char(s, pos) \in prog[ip].set
                    THEN run[ip + 1, pos + 1]
                    ELSE <<>>
              [] prog[ip].op = "lit" ->
                    IF /\ pos + Len(prog[ip].str) - 1 <= Len(s)
                       /\ (IF ignorecase
                           THEN lower(SubSeq(s, pos, pos + Len(prog[ip].str) - 1))
                           ELSE SubSeq(s, pos, pos + Len(prog[ip].str) - 1))
                          = prog[ip].str
                    THEN run[ip + 1, pos + Len(prog[ip].str)]
                    ELSE <<>>
              [] prog[ip].op = "split" ->
                    OrElse[run[prog[ip].x, pos], run[prog[ip].y, pos]]
              [] prog[ip].op = "jmp" -> run[prog[ip].x, pos]
              [] prog[ip].op = "save" -> Saved[run[ip + 1, pos], prog[ip].x, pos]
              [] prog[ip].op = "match" ->
                    <<pos>> \o [n \in 1..Cardinality(Slots(prog)) |-> 0]
    IN  run[1, start]

\* the leftmost position from i on where the pattern matches, 0 for none
FirstMatch(prog, s, i, ignorecase) ==
    LET hits == {j \in i..(Len(s) + 1) : MatchAt(prog, s, j, ignorecase) # <<>>}
    IN  IF hits = {} THEN 0 ELSE CHOOSE j \in hits : \A k \in hits : j <= k

\* pattern.search(text): the result of the matcher at the leftmost position
\* where the pattern matches, <<>> when there is none
re_search(prog, s, ignorecase) ==
    LET at[i \in 0..(Len(s) + 1)] ==
            IF i = 0 THEN <<>> ELSE MatchAt(prog, s, i, ignorecase)
    IN  at[FirstMatch(prog, s, 1, ignorecase)]

\* re.findall(pattern, text) of a pattern without groups that matches no
\* empty string: the matched substrings, left to right, not overlapping
re_findall(prog, s) ==
    LET end[i \in 1..(Len(s) + 1)] == MatchAt(prog, s, i, FALSE)[1]
        found[i \in 0..(Len(s) + 1)] ==
            IF i = 0 THEN <<>>
            ELSE <<SubSeq(s, i, end[i] - 1)>> \o found[FirstMatch(prog, s, end[i], FALSE)]
    IN  found[FirstMatch(prog, s, 1, FALSE)]

\* date_pattern = re.compile(r'(\w+ \d+)\s*[EnDash-]\s*(\w+ \d+)')
date_pattern ==
    <<Save(1), CharIn(WordChars), Split(2, 4),         \* ( \w+
      Lit(" "), CharIn(DigitChars), Split(5, 7),       \*   " " \d+
      Save(2),                                         \* )
      Split(9, 11), CharIn(SpaceChars), Jmp(8),        \* \s*
      CharIn({EnDash, "-"}),                           \* [EnDash-]
      Split(13, 15), CharIn(SpaceChars), Jmp(12),      \* \s*
      Save(3), CharIn(WordChars), Split(16, 18),       \* ( \w+
      Lit(" "), CharIn(DigitChars), Split(19, 21),     \*   " " \d+
      Save(4),                                         \* )
      Match>>

\* death_number_pattern = re.compile(
\*   r'(?:killed|caused|fatalities|deaths|killing)\s*(\d+)\s*(?:people|fatalities|deaths|persons)?',
\*   re.IGNORECASE)
death_number_pattern ==
    <<Split(2, 4), Lit("killed"), Jmp(14),             \* (?:killed
      Split(5, 7), Lit("caused"), Jmp(14),             \*   |caused
      Split(8, 10), Lit("fatalities"), Jmp(14),        \*   |fatalities
      Split(11, 13), Lit("deaths"), Jmp(14),           \*   |deaths
      Lit("killing"),                                  \*   |killing)
      Split(15, 17), CharIn(SpaceChars), Jmp(14),      \* \s*
      Save(1), CharIn(DigitChars), Split(18, 20),      \* ( \d+
      Save(2),                                         \* )
      Split(22, 24), CharIn(SpaceChars), Jmp(21),      \* \s*
      Split(25, 35),                                   \* (?: ... )?
      Split(26, 28), Lit("people"), Jmp(35),           \*   people
      Split(29, 31), Lit("fatalities"), Jmp(35),       \*   |fatalities
      Split(32, 34), Lit("deaths"), Jmp(35),           \*   |deaths
      Lit("persons"),                                  \*   |persons
      Match>>

\* the pattern of extract_affected_areas: r'[A-Z][a-z]+(?: [A-Z][a-z]+)*'
location_pattern ==
    <<CharIn(UpperChars), CharIn(LowerChars), Split(2, 4),          \* [A-Z][a-z]+
      Split(5, 10),                                                 \* (?: ... )*
      Lit(" "), CharIn(UpperChars), CharIn(LowerChars), Split(7, 9),
      Jmp(4),
      Match>>

\* date_pattern.search(text): <<group(1), group(2)>>, or <<>> for None
date_pattern_search(text) ==
    LET date_parts == re_search(date_pattern, text, FALSE)
    IN  IF date_parts # <<>>
        THEN <<SubSeq(text, date_parts[2], date_parts[3] - 1),
               SubSeq(text, date_parts[4], date_parts[5] - 1)>>
        ELSE <<>>

\* death_number_pattern.search(text): group(1), or None
death_number_pattern_search(text) ==
    LET death_match == re_search(death_number_pattern, text, TRUE)
    IN  IF death_match # <<>>
        THEN SubSeq(text, death_match[2], death_match[3] - 1)
        ELSE None

affected_keywords ==
    <<"landfall", "affected", "hit", "struck", "damaged", "moved through", "impacted">>

\* Faulty variant of extract_affected_areas: without the fallback, a text
\* with no keyword yields no location.
extract_gated_areas(text) ==
    LET locations == re_findall(location_pattern, text)
        gate == \E k \in 1..Len(affected_keywords) :
                    contains(lower(text), affected_keywords[k])
    IN  SelectSeq(locations, LAMBDA loc : gate)

\* extract_affected_areas(text)
extract_affected_areas(text) ==
    LET locations == re_findall(location_pattern, text)
        gate == \E k \in 1..Len(affected_keywords) :
                    contains(lower(text), affected_keywords[k])
        relevant_locations == SelectSeq(locations, LAMBDA loc : gate)
    IN  IF relevant_locations # <<>> THEN relevant_locations ELSE locations

(***************************************************************************)
(* The parsed page                                                         *)
(*                                                                         *)
(* The document is the sequence of sibling elements that holds the storm   *)
(* headings, in document order.  An element has its tag name, its class    *)
(* attribute, the text strings below it in document order and, for a       *)
(* table, its rows: the .string of the row's th and the strings of each td *)
(* that follows the th.  <sup> elements are already extracted.             *)
(***************************************************************************)
Tag(name, class, strings, rows) ==
    [name |-> name, class |-> class, strings |-> strings, rows |-> rows]

Row(th, tds) == [th |-> th, tds |-> tds]

\* [s.strip() for s in strings], the empty ones dropped
StrippedOf(strings) ==
    SelectSeq([i \in 1..Len(strings) |-> strip(strings[i])], LAMBDA t : t # "")

\* tag.stripped_strings
stripped_strings(tag) == StrippedOf(tag.strings)

\* tag.get_text(strip=True)
get_text(tag) == join("", stripped_strings(tag))

\* td.get_text(strip=True) of a table cell
cell_text(td) == join("", StrippedOf(td))

RECURSIVE find_all(_, _, _)
\* soup.find_all(name): the positions of the elements called name, from i on
find_all(d, name, i) ==
    IF i > Len(d) THEN <<>>
    ELSE (IF d[i].name = name THEN <<i>> ELSE <<>>) \o find_all(d, name, i + 1)

\* element.find_next_sibling(): the position of the next sibling, 0 for None
find_next_sibling(d, i) == IF i + 1 <= Len(d) THEN i + 1 ELSE 0

\* heading.find_next("table", {"class": "infobox"}): the first infobox table
\* after position i in document order, 0 for None
find_next_infobox(d, i) ==
    LET hits == {j \in (i + 1)..Len(d) : d[j].name = "table" /\ "infobox" \in d[j].class}
    IN  IF hits = {} THEN 0 ELSE CHOOSE j \in hits : \A m \in hits : j <= m

\* infobox.find("th", text="Duration"): the first row whose th reads
\* exactly "Duration", 0 for None
find_duration_row(table) ==
    LET hits == {r \in 1..Len(table.rows) : table.rows[r].th = "Duration"}
    IN  IF hits = {} THEN 0 ELSE CHOOSE r \in hits : \A m \in hits : r <= m

\* heading.get_text(strip=True).replace("[edit]", "")
heading_name(tag) == replace(get_text(tag), "[edit]", "")

\* Faulty variant of the filter: "storm" is not looked for.
is_hurricane_heading(name) == contains(lower(name), "hurricane")

\* the filter of the heading loop
is_storm_heading(name) == contains(lower(name), "hurricane") \/ contains(lower(name), "storm")

\* Faulty variant of the override's test: the name is not lower-cased.
is_olivia_as_written(name) == contains(name, "olivia")

\* the test of the manual override
is_olivia(name) == contains(lower(name), "olivia")

\* Faulty variant of the walk's end: only a subsection heading ends it.
walk_stops_h4 == {"h4"}

\* the elements that end the sibling walk
walk_stops == {"h3", "h4"}

\* the test of the walk's while loop, negated: no sibling, or one that ends it
walk_over(d, sib) == IF sib = 0 THEN TRUE ELSE d[sib].name \in walk_stops

RECURSIVE str(_)
\* str(n) of a natural number
str(n) == IF n < 10 THEN Char(DigitSeq, n + 1) ELSE str(n \div 10) \o Char(DigitSeq, (n % 10) + 1)

\* str(list) of a list of strings without quotes in them
list_repr(l) == "[" \o join(", ", [i \in 1..Len(l) |-> "'" \o l[i] \o "'"]) \o "]"

Info(msg) == [level |-> "INFO", msg |-> msg]
Warning(msg) == [level |-> "WARNING", msg |-> msg]

csv_header ==
    <<"hurricane_storm_name", "date_start", "date_end", "number_of_deaths",
      "list_of_areas_affected">>

(***************************************************************************)
(* Elements and documents                                                   *)
(***************************************************************************)
\* the longest document
MaxNodes == 4

H3(strings) == Tag("h3", {}, strings, <<>>)
P(strings) == Tag("p", {}, strings, <<>>)

HAgatha  == H3(<<"Hurricane Agatha", "[", "edit", "]">>)
HBridget == H3(<<" Tropical Storm Bridget ", "[edit]">>)
HOlivia  == H3(<<"Hurricane Olivia", "[edit]">>)
HSummary == H3(<<"Season summary", "[edit]">>)
H4Impact == Tag("h4", {}, <<"Impact", "[edit]">>, <<>>)

PKilled == P(<<"The storm killed ", "15", " people in ", "Sinaloa", ".">>)
PStruck == P(<<"It struck ", "Baja California", " killing 7 persons. Baja California flooded.">>)
PCaused == P(<<"Floods caused 3 deaths 12 days later in Mexico">>)
PQuiet  == P(<<"no damage was reported at sea.">>)
DivNote == Tag("div", {"hatnote"}, <<"Floods in Texas killed 99 people.">>, <<>>)

InfoboxAug == Tag("table", {"infobox"}, <<>>,
                  <<Row("Formed", << <<"August 12">> >>),
                    Row("Duration", << <<" August 12 ", EnDash, " August 18 ">> >>)>>)
InfoboxJun == Tag("table", {"infobox", "vevent"}, <<>>,
                  <<Row("Duration", << <<"June 2 - June 9">> >>)>>)
InfoboxBare == Tag("table", {"infobox"}, <<>>,
                   <<Row("duration", << <<"July 1 - July 4">> >>),
                     Row("Duration", << <<"Unknown">> >>)>>)
InfoboxEmpty == Tag("table", {"infobox"}, <<>>, <<Row("Duration", <<>>)>>)
WikiTable == Tag("table", {"wikitable"}, <<>>,
                 <<Row("Duration", << <<"May 5 - May 6">> >>)>>)

\* the documents of at most MaxNodes elements drawn from a set of elements
Documents(elements) == UNION {[1..n -> elements] : n \in 0..MaxNodes}

SectionElements == {HAgatha, HBridget, HOlivia, HSummary, H4Impact, PKilled, InfoboxAug}
WalkElements == {HAgatha, HOlivia, HSummary, H4Impact, PKilled, PStruck, PCaused, PQuiet,
                 DivNote}
FewElements == {HAgatha, HSummary, H4Impact, PKilled, InfoboxAug}
DateElements == {HAgatha, HSummary, PKilled, InfoboxAug, InfoboxJun, InfoboxBare,
                 InfoboxEmpty, WikiTable}

Elements == SectionElements \cup WalkElements \cup DateElements

(***************************************************************************)
(* The values the steps compute                                            *)
(***************************************************************************)
columns == <<hurricane_names, start_dates, end_dates, deaths, areas_affected>>

locals == <<date_start, date_end, hurricane_deaths, hurricane_affected_areas, sibling>>

vars == <<doc, hurricane_names, start_dates, end_dates, deaths, areas_affected, log, pc,
          h, hurricane_name, date_start, date_end, hurricane_deaths,
          hurricane_affected_areas, sibling, csv>>

\* headings = soup.find_all("h3")
headings == find_all(doc, "h3", 1)

\* the placeholder of date_start and date_end
date_placeholder == "-"

\* Faulty variant of the initial value: the placeholder of the dates.
initial_deaths_dash == "-"

\* the initial value of hurricane_deaths
initial_deaths == "0"

\* the Duration lookup in an infobox table: whether a Duration cell was
\* found, its text, and the dates taken from it
duration_of(table) ==
    LET r     == find_duration_row(table)
        found == IF r = 0 THEN FALSE ELSE table.rows[r].tds # <<>>
        text  == IF found THEN cell_text(table.rows[r].tds[1]) ELSE ""
        parts == IF found THEN date_pattern_search(text) ELSE <<>>
    IN  [found |-> found,
         text  |-> text,
         start |-> IF parts # <<>> THEN parts[1] ELSE date_placeholder,
         end   |-> IF parts # <<>> THEN parts[2] ELSE date_placeholder]

\* the text of a paragraph: " ".join(sibling.stripped_strings)
paragraph_text(tag) == join(" ", stripped_strings(tag))

\* What the script computes from one element alone, whatever the rest of the
\* page: evaluated once per element and looked up by the steps below.
Computed ==
    [e \in Elements |->
        [name        |-> heading_name(e),
         is_storm    |-> is_storm_heading(heading_name(e)),
         text        |-> paragraph_text(e),
         death_match |-> death_number_pattern_search(paragraph_text(e)),
         locations   |-> extract_affected_areas(paragraph_text(e)),
         duration    |-> duration_of(e)]]

\* no infobox: nothing found, both dates stay at the placeholder
no_duration ==
    [found |-> FALSE, text |-> "", start |-> date_placeholder, end |-> date_placeholder]

\* the Duration lookup of process_hurricane for the heading at position i
duration_lookup(d, i) ==
    LET infobox == find_next_infobox(d, i)
    IN  IF infobox # 0 THEN Computed[d[infobox]].duration ELSE no_duration

\* Faulty variant of the overwrite: the first match is kept.
first_death_kept(old, death_match) ==
    IF death_match # None /\ old = "0" THEN death_match ELSE old

\* hurricane_deaths after a paragraph: every match overwrites it
deaths_after(old, death_match) == IF death_match # None THEN death_match ELSE old

\* hurricane_affected_areas after a paragraph
areas_after(old, locations) == IF locations # <<>> THEN old \o locations ELSE old

\* the manual override for Hurricane Olivia, on (deaths, areas)
manual_override(name, d, areas) ==
    IF is_olivia(name) THEN <<"30", <<"Sinaloa, Mexico">>>> ELSE <<d, areas>>

\* Faulty variant of the appends: deaths.append is left out.
append_record_no_deaths(cols, name, start, end, d, areas) ==
    <<Append(cols[1], name), Append(cols[2], start), Append(cols[3], end),
      cols[4], Append(cols[5], areas)>>

\* Faulty variant of the appends: insert(0, ...) in place of append(...).
prepend_record(cols, name, start, end, d, areas) ==
    <<(<<name>>) \o cols[1], (<<start>>) \o cols[2], (<<end>>) \o cols[3],
      (<<d>>) \o cols[4], (<<areas>>) \o cols[5]>>

\* the five appends that end process_hurricane
append_record(cols, name, start, end, d, areas) ==
    <<Append(cols[1], name), Append(cols[2], start), Append(cols[3], end),
      Append(cols[4], d), Append(cols[5], areas)>>

(***************************************************************************)
(* Steps                                                                   *)
(***************************************************************************)
InitState(d) ==
    /\ doc = d
    /\ hurricane_names = <<>> /\ start_dates = <<>> /\ end_dates = <<>>
    /\ deaths = <<>> /\ areas_affected = <<>>
    /\ log = <<>>
    /\ pc = "main"
    /\ h = 1
    /\ hurricane_name = None
    /\ date_start = None /\ date_end = None /\ hurricane_deaths = None
    /\ hurricane_affected_areas = <<>> /\ sibling = 0
    /\ csv = <<>>

\* one pass of the heading loop for a heading the filter rejects
SkipHeading ==
    /\ pc = "main" /\ h <= Len(headings)
    /\ ~Computed[doc[headings[h]]].is_storm
    /\ hurricane_name' = Computed[doc[headings[h]]].name
    /\ h' = h + 1
    /\ UNCHANGED <<doc, columns, log, pc, locals, csv>>

\* the heading passes the filter: process_hurricane up to the sibling walk
ProcessStart ==
    /\ pc = "main" /\ h <= Len(headings)
    /\ Computed[doc[headings[h]]].is_storm
    /\ LET name == Computed[doc[headings[h]]].name
           dur  == duration_lookup(doc, headings[h])
       IN  /\ hurricane_name' = name
           /\ date_start' = dur.start
           /\ date_end' = dur.end
           /\ log' = log \o <<Info("Processing Hurricane: " \o name)>>
                         \o (IF dur.found
                             THEN <<Info("Extracted duration for " \o name \o ": "
                                         \o dur.text)>>
                             ELSE <<>>)
    /\ hurricane_deaths' = initial_deaths
    /\ hurricane_affected_areas' = <<>>
    /\ sibling' = find_next_sibling(doc, headings[h])
    /\ pc' = "walk"
    /\ UNCHANGED <<doc, columns, h, csv>>

\* one pass of the sibling walk
WalkStep ==
    /\ pc = "walk" /\ ~walk_over(doc, sibling)
    /\ IF doc[sibling].name = "p"
       THEN LET death_match == Computed[doc[sibling]].death_match
                locations   == Computed[doc[sibling]].locations
            IN  /\ hurricane_deaths' = deaths_after(hurricane_deaths, death_match)
                /\ hurricane_affected_areas' =
                       areas_after(hurricane_affected_areas, locations)
                /\ log' = log
                     \o (IF death_match # None
                         THEN <<Info("Found death information for " \o hurricane_name
                                     \o ": " \o deaths_after(hurricane_deaths, death_match)
                                     \o " people")>>
                         ELSE <<>>)
                     \o (IF locations # <<>>
                         THEN <<Info("Found affected areas for " \o hurricane_name
                                     \o ": " \o list_repr(locations))>>
                         ELSE <<>>)
       ELSE UNCHANGED <<hurricane_deaths, hurricane_affected_areas, log>>
    /\ sibling' = find_next_sibling(doc, sibling)
    /\ UNCHANGED <<doc, columns, pc, h, hurricane_name, date_start, date_end, csv>>

\* the walk is over: the override, the appends, and the return to the loop
ProcessFinish ==
    /\ pc = "walk" /\ walk_over(doc, sibling)
    /\ LET over == manual_override(hurricane_name, hurricane_deaths,
                                   hurricane_affected_areas)
           affected_areas == IF over[2] # <<>> THEN join("; ", over[2]) ELSE "-"
           cols == append_record(columns, hurricane_name, date_start, date_end,
                                 over[1], affected_areas)
       IN  /\ hurricane_names' = cols[1]
           /\ start_dates' = cols[2]
           /\ end_dates' = cols[3]
           /\ deaths' = cols[4]
           /\ areas_affected' = cols[5]
           /\ log' = log \o (IF is_olivia(hurricane_name)
                             THEN <<Info("Manually setting 30 deaths and affected areas for Hurricane Olivia")>>
                             ELSE <<>>)
    /\ date_start' = None /\ date_end' = None /\ hurricane_deaths' = None
    /\ hurricane_affected_areas' = <<>> /\ sibling' = 0
    /\ h' = h + 1
    /\ pc' = "main"
    /\ UNCHANGED <<doc, hurricane_name, csv>>

\* Faulty variant of the check: the script ends after the warning, before
\* the DataFrame is built.
CheckProcessedExit ==
    /\ pc = "main" /\ h > Len(headings)
    /\ log' = Append(log, IF hurricane_names = <<>>
                          THEN Warning("No hurricane names found!")
                          ELSE Info("Extracted " \o str(Len(hurricane_names))
                                    \o " hurricane names."))
    /\ pc' = IF hurricane_names = <<>> THEN "done" ELSE "write"
    /\ UNCHANGED <<doc, columns, h, hurricane_name, locals, csv>>

\* the loop is over: the check whether any hurricane was processed
CheckProcessed ==
    /\ pc = "main" /\ h > Len(headings)
    /\ log' = Append(log, IF hurricane_names = <<>>
                          THEN Warning("No hurricane names found!")
                          ELSE Info("Extracted " \o str(Len(hurricane_names))
                                    \o " hurricane names."))
    /\ pc' = "write"
    /\ UNCHANGED <<doc, columns, h, hurricane_name, locals, csv>>

\* the DataFrame and to_csv: pandas raises when the columns differ in length
WriteCsv ==
    /\ pc = "write"
    /\ IF \A i \in 1..5 : Len(columns[i]) = Len(hurricane_names)
       THEN /\ csv' = <<csv_header>>
                      \o [i \in 1..Len(hurricane_names) |->
                            <<hurricane_names[i], start_dates[i], end_dates[i],
                              deaths[i], areas_affected[i]>>]
            /\ log' = Append(log, Info("Data successfully scraped and saved to hurricanes_1975.csv"))
            /\ pc' = "done"
       ELSE /\ pc' = "raised"
            /\ UNCHANGED <<csv, log>>
    /\ UNCHANGED <<doc, columns, h, hurricane_name, locals>>

Next ==
    \/ SkipHeading
    \/ ProcessStart
    \/ WalkStep
    \/ ProcessFinish
    \/ CheckProcessed
    \/ WriteCsv

(***************************************************************************)
(* Specifications                                                          *)
(***************************************************************************)
Init == \E d \in Documents(SectionElements) : InitState(d)
InitWalk == \E d \in Documents(WalkElements) : InitState(d)
InitDates == \E d \in Documents(DateElements) : InitState(d)
InitFew == \E d \in Documents(FewElements) : InitState(d)

Spec == Init /\ [][Next]_vars
SpecWalk == InitWalk /\ [][Next]_vars
SpecDates == InitDates /\ [][Next]_vars

\* the script runs to its end: no step that can be taken is put off for ever
FairSpec == InitFew /\ [][Next]_vars /\ WF_vars(Next)

(***************************************************************************)
(* Properties: the heading loop and the table                              *)
(***************************************************************************)
\* the display text of an element, the "[edit]" marker removed
SectionName == [e \in Elements |-> replace(get_text(e), "[edit]", "")]

\* the h3 headings whose name, in lower case, contains "hurricane" or "storm"
Qualifying ==
    {e \in Elements :
        /\ e.name = "h3"
        /\ \/ contains(lower(SectionName[e]), "hurricane")
           \/ contains(lower(SectionName[e]), "storm")}

\* the positions of the qualifying Sections of the document, in document order
Sections == SelectSeq([i \in 1..Len(doc) |-> i], LAMBDA i : doc[i] \in Qualifying)

\* their names
SectionNames == [k \in 1..Len(Sections) |-> SectionName[doc[Sections[k]]]]

\* the main loop is over
LoopOver == pc \in {"write", "done"}

IsPrefix(s, t) == Len(s) <= Len(t) /\ SubSeq(t, 1, Len(s)) = s

\* C1: the table holds one Record per qualifying h3 heading and none for any
\* other heading, the i-th Record named after the i-th qualifying heading in
\* document order: throughout the loop the names are the names of the first
\* qualifying headings, and once the loop is over they are all of them.
C1_OneRecordPerSection ==
    /\ IsPrefix(hurricane_names, SectionNames)
    /\ LoopOver => hurricane_names = SectionNames

\* a run over two storms with another h3 between them
C1_Witness ==
    /\ pc = "done"
    /\ doc = <<HBridget, HSummary, HAgatha, PKilled>>
    /\ hurricane_names = <<"Tropical Storm Bridget", "Hurricane Agatha">>

\* C2: the five columns have the same length after every completed call of
\* process_hurricane (the DataFrame is never refused), and when the loop is over
\* that length is the number of qualifying Sections.
C2_ColumnsAligned ==
    /\ \A i \in 1..5 : Len(columns[i]) = Len(columns[1])
    /\ LoopOver => \A i \in 1..5 : Len(columns[i]) = Len(Sections)
    /\ pc # "raised"

\* three storms and one other element, all three recorded
C2_Witness ==
    /\ pc = "done"
    /\ Len(Sections) = 3 /\ Len(doc) = 4
    /\ \A i \in 1..5 : Len(columns[i]) = 3

\* C7: with no qualifying Section process_hurricane is never called, the
\* warning is the only record logged before the write, the file gets the
\* five-column header and no data row, and the run does reach the write.
C7_EmptyRun ==
    /\ [](Sections = <<>> =>
            /\ pc \in {"main", "write", "done"}
            /\ \A i \in 1..5 : columns[i] = <<>>
            /\ pc = "main" => log = <<>> /\ csv = <<>>
            /\ pc = "write" => log = <<Warning("No hurricane names found!")>> /\ csv = <<>>
            /\ pc = "done" =>
                  /\ log = <<Warning("No hurricane names found!"),
                             Info("Data successfully scraped and saved to hurricanes_1975.csv")>>
                  /\ csv = <<csv_header>> /\ Len(csv[1]) = 5)
    /\ (Sections = <<>> ~> pc = "done")

\* a written file for a page with headings and paragraphs but no storm
C7_Witness ==
    /\ pc = "done" /\ Sections = <<>>
    /\ \E i, j \in 1..Len(doc) : doc[i] = HSummary /\ doc[j] = PKilled
    /\ csv = <<csv_header>>

\* C8: a call of process_hurricane adds one entry to the end of each column and
\* keeps the entries before it; no other step touches a column.
C8_AppendOnly ==
    [][IF pc = "walk" /\ pc' = "main"
       THEN \A i \in 1..5 : /\ Len(columns'[i]) = Len(columns[i]) + 1
                            /\ IsPrefix(columns[i], columns'[i])
       ELSE columns' = columns]_vars

\* a second, different Record appended after a first
C8_Witness ==
    /\ pc = "main" /\ Len(hurricane_names) = 2
    /\ hurricane_names[1] # hurricane_names[2]
    /\ start_dates[1] # start_dates[2]

(***************************************************************************)
(* Properties: the Records                                                 *)
(***************************************************************************)
\* the headings whose name, in lower case, contains "olivia"
Olivia == {e \in Elements : contains(lower(SectionName[e]), "olivia")}

\* every proper-noun match of an element's text
ProperNouns == [e \in Elements |-> re_findall(location_pattern, paragraph_text(e))]

\* the Records appended so far: Record k belongs to Section k
Recorded == DOMAIN hurricane_names \cap DOMAIN Sections

\* the first position after i of an element with one of the names,
\* Len(doc) + 1 when there is none
FirstOf(i, names) ==
    LET hits == {j \in (i + 1)..Len(doc) : doc[j].name \in names}
    IN  IF hits = {} THEN Len(doc) + 1 ELSE CHOOSE j \in hits : \A m \in hits : j <= m

\* the paragraphs strictly between positions i and j, in document order
ParagraphsBetween(i, j) ==
    SelectSeq([n \in 1..(j - i - 1) |-> i + n], LAMBDA m : doc[m].name = "p")

\* the paragraphs the sibling walk of the Section at i visits: those between
\* its heading and the next h3 or h4
WalkedParagraphs(i) == ParagraphsBetween(i, FirstOf(i, {"h3", "h4"}))

\* the number of the last of the paragraphs that matches the death pattern,
\* None when none does
LastDeath(ps) ==
    LET hits == SelectSeq(ps, LAMBDA m : Computed[doc[m]].death_match # None)
    IN  IF hits = <<>> THEN None ELSE Computed[doc[hits[Len(hits)]]].death_match

\* the proper-noun matches of the paragraphs, one paragraph after the other
AllProperNouns(ps) ==
    LET cat[n \in 0..Len(ps)] ==
            IF n = 0 THEN <<>> ELSE cat[n - 1] \o ProperNouns[doc[ps[n]]]
    IN  cat[Len(ps)]

\* the areas field of a list of locations
AreasField(l) == IF l = <<>> THEN "-" ELSE join("; ", l)

\* C3: the Record of a Section whose name contains "olivia" has 30 deaths and
\* the one area "Sinaloa, Mexico", whatever its paragraphs hold.
C3_OliviaOverride ==
    \A k \in Recorded :
        doc[Sections[k]] \in Olivia =>
            deaths[k] = "30" /\ areas_affected[k] = "Sinaloa, Mexico"

\* Olivia's Section with two paragraphs that give deaths and areas of their own
C3_Witness ==
    /\ pc = "done"
    /\ doc = <<HOlivia, PKilled, PStruck>>
    /\ deaths = <<"30">> /\ areas_affected = <<"Sinaloa, Mexico">>

\* C4: when paragraphs of the walk match the death pattern, the death count is
\* the number of the last of them, during the walk (a paragraph without a match
\* leaves the count found before it) and in the Record of a Section that is not
\* Olivia's.
C4_LastMatchWins ==
    /\ pc = "walk" =>
          LET section == Sections[Len(hurricane_names) + 1]
              visited == ParagraphsBetween(section,
                                           IF sibling = 0 THEN Len(doc) + 1 ELSE sibling)
          IN  LastDeath(visited) # None => hurricane_deaths = LastDeath(visited)
    /\ \A k \in Recorded :
          /\ doc[Sections[k]] \notin Olivia
          /\ LastDeath(WalkedParagraphs(Sections[k])) # None
          => deaths[k] = LastDeath(WalkedParagraphs(Sections[k]))

\* 15 deaths, then 7 deaths, then a paragraph without a number: 7 is recorded
C4_Witness ==
    /\ pc = "done"
    /\ doc = <<HAgatha, PKilled, PStruck, PQuiet>>
    /\ deaths = <<"7">>

\* C6 as stated: without a matching paragraph the death count of a Section that
\* is not Olivia's is the placeholder "-".
C6_DashWithoutMatch ==
    \A k \in Recorded :
        /\ doc[Sections[k]] \notin Olivia
        /\ LastDeath(WalkedParagraphs(Sections[k])) = None
        => deaths[k] = "-"

\* C6 as amended: without a matching paragraph the death count of a Section
\* that is not Olivia's is the digit string "0".
C6_ZeroWithoutMatch ==
    \A k \in Recorded :
        /\ doc[Sections[k]] \notin Olivia
        /\ LastDeath(WalkedParagraphs(Sections[k])) = None
        => deaths[k] = "0"

\* a Section whose only number of deaths stands in a div, not in a paragraph
C6_Witness ==
    /\ pc = "done"
    /\ doc = <<HAgatha, PQuiet, DivNote>>
    /\ deaths = <<"0">>

\* C10: the areas of a Section that is not Olivia's are all proper-noun matches
\* of the paragraphs of its walk, in walk order, duplicates kept, with or without
\* a keyword in the paragraph, nothing from other siblings; the field is "-"
\* exactly when there is no match.
C10_AllProperNouns ==
    \A k \in Recorded :
        doc[Sections[k]] \notin Olivia =>
            LET matches == AllProperNouns(WalkedParagraphs(Sections[k]))
            IN  /\ areas_affected[k] = AreasField(matches)
                /\ areas_affected[k] = "-" <=> matches = <<>>

\* a paragraph with a keyword and a repeated name, a div, a paragraph without
\* a keyword
C10_Witness ==
    /\ pc = "done"
    /\ doc = <<HAgatha, PStruck, DivNote, PKilled>>
    /\ areas_affected = <<"It; Baja California; Baja California; The; Sinaloa">>

\* C9 as stated: an h3 that is no storm entry does not end the walk, an h4 does.
\* For a Section that is not Olivia's and has no qualifying h3 before the next
\* h4, the areas of the Record are the proper-noun matches of every paragraph
\* up to that h4, those that follow an h3 included.
C9_WalkPassesOtherHeadings ==
    \A k \in Recorded :
        LET section == Sections[k]
            next_h4 == FirstOf(section, {"h4"})
        IN  /\ doc[section] \notin Olivia
            /\ \A j \in (section + 1)..(next_h4 - 1) : doc[j] \notin Qualifying
            => areas_affected[k] = AreasField(AllProperNouns(ParagraphsBetween(section, next_h4)))

\* C9 as amended: the walk ends at the first following sibling that is an h3 or
\* an h4, whether or not the h3 is a storm entry: it never moves past one, and
\* the deaths and areas of the Record of a Section that is not Olivia's come
\* from the paragraphs before that heading alone.
C9_WalkStopsAtAnyHeading ==
    /\ pc = "walk" =>
          LET section == Sections[Len(hurricane_names) + 1]
              reached == IF sibling = 0 THEN Len(doc) + 1 ELSE sibling
          IN  \A j \in (section + 1)..(reached - 1) : doc[j].name \notin {"h3", "h4"}
    /\ \A k \in Recorded :
          doc[Sections[k]] \notin Olivia =>
              LET before == ParagraphsBetween(Sections[k],
                                              FirstOf(Sections[k], {"h3", "h4"}))
              IN  /\ deaths[k] = IF LastDeath(before) # None THEN LastDeath(before)
                                                              ELSE "0"
                  /\ areas_affected[k] = AreasField(AllProperNouns(before))

\* a paragraph after an h3 that is no storm entry is left out of the Record
C9_Witness ==
    /\ pc = "done"
    /\ doc = <<HAgatha, PStruck, HSummary, PKilled>>
    /\ deaths = <<"7">>
    /\ areas_affected = <<"It; Baja California; Baja California">>

(***************************************************************************)
(* Properties: the dates                                                   *)
(***************************************************************************)
\* C5: a Section with no infobox table between its heading and the next
\* heading has "-" for both dates, whatever tables stand elsewhere in the
\* document.
C5_NoInfoboxNoDates ==
    \A k \in Recorded :
        LET section == Sections[k]
            content == (section + 1)..(FirstOf(section, {"h1", "h2", "h3", "h4", "h5", "h6"}) - 1)
        IN  (\A j \in content : ~(doc[j].name = "table" /\ "infobox" \in doc[j].class))
            => start_dates[k] = "-" /\ end_dates[k] = "-"

====
